---- MODULE Spec2Model ----
(***************************************************************************)
(* Consistent-hashing ring of python-dynamo (ring.py, class Ring).         *)
(*                                                                         *)
(* Strings are sequences of code units (small naturals).  Python lists     *)
(* are sequences read with 0-based indices through At/PyIndex, Python      *)
(* dicts are functions whose DOMAIN is the set of keys present.            *)
(* An exception is the name of its class in the "err" field of a result;   *)
(* "none" means the call returned normally.                                *)
(***************************************************************************)
EXTENDS Integers, Sequences, FiniteSets, TLC

\* ---------------------------------------------------------------- bounds
NumHosts == 4          \* hostnames are the one-character strings <<1>> .. <<NumHosts>>
HashSpace == 6         \* the digest is an integer in 0 .. HashSpace-1 (2^128 in the code)
NumIPs == 2            \* addresses the resolver can answer with
MaxChar == 5           \* keys are the one-character strings <<0>> .. <<MaxChar>>
MaxReplicaCount == 2   \* replica_count passed to the constructor is in 0 .. MaxReplicaCount

\* ------------------------------------------------------ program constants
vnode_count == 1       \* ring.py:16, "for now, only 1 vnode is supported"
CharUnderscore == 5    \* the '_' of ring.py:29
CharZero == 0          \* the digit '0' that str(0) yields, ring.py:29

Hostnames == { <<c>> : c \in 1..NumHosts }
Keys == { <<c>> : c \in 0..MaxChar }
IPs == 1..NumIPs
\* The threads of the interleaved specification: a writer next to a reader, or
\* next to another writer.
Threads == {"t1", "t2"}

\* ------------------------------------------------------------ Python data
At(a, i) == a[i + 1]

\* a[i] as Python evaluates it: a negative index counts from the end, an
\* index outside the list raises IndexError.
PyIndex(a, i) ==
    LET j == IF i < 0 THEN i + Len(a) ELSE i
    IN  IF j < 0 \/ j >= Len(a)
        THEN [err |-> "IndexError", val |-> 0]
        ELSE [err |-> "none", val |-> At(a, j)]

ListInsert(a, i, x) == SubSeq(a, 1, i) \o <<x>> \o SubSeq(a, i + 1, Len(a))

ListDel(a, i) == SubSeq(a, 1, i) \o SubSeq(a, i + 2, Len(a))

DictSet(d, k, v) == [x \in (DOMAIN d) \cup {k} |-> IF x = k THEN v ELSE d[x]]

DictDel(d, k) == [x \in (DOMAIN d) \ {k} |-> d[x]]

EmptyDict == [x \in {} |-> 0]

DictValues(d) == { d[x] : x \in DOMAIN d }

\* ---------------------------------------------------------------- bisect
RECURSIVE BisectLeftLoop(_, _, _, _)
BisectLeftLoop(a, x, lo, hi) ==
    IF lo < hi
    THEN LET mid == (lo + hi) \div 2
         IN  IF At(a, mid) < x
             THEN BisectLeftLoop(a, x, mid + 1, hi)
             ELSE BisectLeftLoop(a, x, lo, mid)
    ELSE lo

RECURSIVE BisectRightLoop(_, _, _, _)
BisectRightLoop(a, x, lo, hi) ==
    IF lo < hi
    THEN LET mid == (lo + hi) \div 2
         IN  IF x < At(a, mid)
             THEN BisectRightLoop(a, x, lo, mid)
             ELSE BisectRightLoop(a, x, mid + 1, hi)
    ELSE lo

\* A bisect that goes past the elements equal to x.
BisectLeft_right(a, x) == BisectRightLoop(a, x, 0, Len(a))

BisectLeft(a, x) == BisectLeftLoop(a, x, 0, Len(a))

\* A bisect that stops at the first element not less than x.
BisectRight_left(a, x) == BisectLeftLoop(a, x, 0, Len(a))

BisectRight(a, x) == BisectRightLoop(a, x, 0, Len(a))

\* An insertion at the end of the list.
Insort_append(a, x) == Append(a, x)

Insort(a, x) == ListInsert(a, BisectRight(a, x), x)

\* --------------------------------------------------------------- hashing
\* md5 over the encoded string, read as an unsigned integer.  The digest is
\* a fold over the code units into 0 .. HashSpace-1: deterministic, and
\* not injective, as md5 is not.
RECURSIVE Md5(_, _)
Md5(bytes, h) ==
    IF bytes = <<>> THEN h
    ELSE Md5(Tail(bytes), (h * 2 + Head(bytes)) % HashSpace)

generate_hash(key) == Md5(key, 0)

\* (node_id + '_' + str(i) for i in range(vnode_count)); str(i) is one digit.
generate_vnode_ids(node_id) ==
    [i \in 1..vnode_count |-> node_id \o <<CharUnderscore, CharZero + (i - 1)>>]

\* ----------------------------------------------------------------- state
VARIABLES
    replica_count,     \* self.replica_count
    vnode_mapping,     \* self._vnode_mapping: node_id -> set of positions ({} = no entry)
    vnode_hashes,      \* self._vnode_hashes: list of positions
    nodes,             \* self._nodes: position -> hostname
    ip_to_hostname,    \* self.ip_to_hostname
    hostname_to_ip,    \* self.hostname_to_ip
    registered,        \* history: hostnames whose add_node returned and whose remove_node has not since
    ret,               \* the last call: [op, arg, err, out]
    threads            \* per thread: the call it is in, its line and its local variables

vars == <<replica_count, vnode_mapping, vnode_hashes, nodes,
          ip_to_hostname, hostname_to_ip, registered, ret, threads>>

ring == <<replica_count, vnode_mapping, vnode_hashes, nodes,
          ip_to_hostname, hostname_to_ip>>

\* A thread that is in no call.
Idle == [pc |-> "idle", op |-> "none", arg |-> <<>>, ip |-> 0, ids |-> <<>>,
         todo |-> {}, vnode_hash |-> 0, index |-> 0, err |-> "none", out |-> <<>>]

Init ==
    /\ threads = [t \in Threads |-> Idle]
    /\ replica_count \in 0..MaxReplicaCount
    /\ vnode_mapping = [n \in Hostnames |-> {}]
    /\ vnode_hashes = <<>>
    /\ nodes = EmptyDict
    /\ ip_to_hostname = EmptyDict
    /\ hostname_to_ip = EmptyDict
    /\ registered = {}
    /\ ret = [op |-> "init", arg |-> <<>>, err |-> "none", out |-> <<>>]

\* ------------------------------------------------------- node management
\* The three structures __setitem__ and __delitem__ work on, with the
\* exception the call ended in.
Structs(n, h, m, e) == [nodes |-> n, vnode_hashes |-> h, vnode_mapping |-> m, err |-> e]

RECURSIVE SetItemLoop(_, _, _, _)
SetItemLoop(st, node_id, hostname, ids) ==
    IF ids = <<>> THEN st
    ELSE LET vnode_hash == generate_hash(Head(ids))
         IN  IF vnode_hash \in DOMAIN st.nodes
             THEN [st EXCEPT !.err = "ValueError"]
             ELSE SetItemLoop(
                     Structs(DictSet(st.nodes, vnode_hash, hostname),
                             Insort(st.vnode_hashes, vnode_hash),
                             [st.vnode_mapping EXCEPT ![node_id] = @ \cup {vnode_hash}],
                             "none"),
                     node_id, hostname, Tail(ids))

SetItem(st, node_id, hostname) ==
    SetItemLoop(st, node_id, hostname, generate_vnode_ids(node_id))

\* A removal that takes the positions out of the sorted list only.
RECURSIVE DelItemLoop_listonly(_, _)
DelItemLoop_listonly(st, todo) ==
    IF todo = {} THEN st
    ELSE LET vnode_hash == CHOOSE p \in todo : \A q \in todo : p <= q
             index == BisectLeft(st.vnode_hashes, vnode_hash)
         IN  IF vnode_hash \notin DOMAIN st.nodes
             THEN [st EXCEPT !.err = "KeyError"]
             ELSE DelItemLoop_listonly(
                     Structs(st.nodes, ListDel(st.vnode_hashes, index),
                             st.vnode_mapping, "none"),
                     todo \ {vnode_hash})

RECURSIVE DelItemLoop(_, _)
DelItemLoop(st, todo) ==
    IF todo = {} THEN st
    ELSE LET vnode_hash == CHOOSE p \in todo : \A q \in todo : p <= q
             index == BisectLeft(st.vnode_hashes, vnode_hash)
         IN  IF vnode_hash \notin DOMAIN st.nodes
             THEN [st EXCEPT !.err = "KeyError"]
             ELSE IF index >= Len(st.vnode_hashes)
             THEN [st EXCEPT !.nodes = DictDel(st.nodes, vnode_hash), !.err = "IndexError"]
             ELSE DelItemLoop(
                     Structs(DictDel(st.nodes, vnode_hash),
                             ListDel(st.vnode_hashes, index),
                             st.vnode_mapping,
                             "none"),
                     todo \ {vnode_hash})

\* The message of the raise has no conversion specifier, so applying % to it
\* raises TypeError before the intended ValueError is built.
DelItem(st, node_id) ==
    IF st.vnode_mapping[node_id] = {}
    THEN [st EXCEPT !.err = "TypeError"]
    ELSE DelItemLoop(st, st.vnode_mapping[node_id])

Current == Structs(nodes, vnode_hashes, vnode_mapping, "none")

Called(op, arg, err, out) == [op |-> op, arg |-> arg, err |-> err, out |-> out]

\* socket.gethostbyname: the resolver is a table that does not change while the
\* ring lives; several hostnames may share one address.
gethostbyname(node_hostname) == (node_hostname[1] % NumIPs) + 1

\* socket.gethostbyname fails: nothing has been assigned yet.
AddNodeUnresolved(node_hostname) ==
    /\ ret' = Called("add_node", node_hostname, "gaierror", <<>>)
    /\ UNCHANGED <<ring, registered, threads>>

AddNode(node_hostname) ==
    LET ip == gethostbyname(node_hostname)
        st == SetItem(Current, node_hostname, node_hostname)
    IN  /\ ip_to_hostname' = DictSet(ip_to_hostname, ip, node_hostname)
        /\ hostname_to_ip' = DictSet(hostname_to_ip, node_hostname, ip)
        /\ nodes' = st.nodes
        /\ vnode_hashes' = st.vnode_hashes
        /\ vnode_mapping' = st.vnode_mapping
        /\ registered' = IF st.err = "none" THEN registered \cup {node_hostname} ELSE registered
        /\ ret' = Called("add_node", node_hostname, st.err, <<>>)
        /\ UNCHANGED <<replica_count, threads>>

RemoveNode(node_hostname) ==
    IF node_hostname \notin DOMAIN hostname_to_ip
    THEN /\ ret' = Called("remove_node", node_hostname, "KeyError", <<>>)
         /\ UNCHANGED <<ring, registered, threads>>
    ELSE LET ip == hostname_to_ip[node_hostname]
         IN  IF ip \notin DOMAIN ip_to_hostname
             THEN /\ ret' = Called("remove_node", node_hostname, "KeyError", <<>>)
                  /\ UNCHANGED <<ring, registered, threads>>
             ELSE LET st == DelItem(Current, node_hostname)
                  IN  /\ ip_to_hostname' = DictDel(ip_to_hostname, ip)
                      /\ hostname_to_ip' = DictDel(hostname_to_ip, node_hostname)
                      /\ nodes' = st.nodes
                      /\ vnode_hashes' = st.vnode_hashes
                      /\ vnode_mapping' = st.vnode_mapping
                      /\ registered' = IF st.err = "none"
                                       THEN registered \ {node_hostname} ELSE registered
                      /\ ret' = Called("remove_node", node_hostname, st.err, <<>>)
                      /\ UNCHANGED <<replica_count, threads>>

\* ---------------------------------------------------------------- queries
get_nearest_hash_index(hashes, key_hash) ==
    LET nearest_hash_index == BisectRight(hashes, key_hash)
    IN  IF nearest_hash_index = Len(hashes) THEN 0 ELSE nearest_hash_index

\* self._nodes[self._vnode_hashes[i]]
NodeAt(hashes, owners, i) ==
    LET pos == PyIndex(hashes, i)
    IN  IF pos.err # "none" THEN [err |-> pos.err, val |-> <<>>]
        ELSE IF pos.val \notin DOMAIN owners THEN [err |-> "KeyError", val |-> <<>>]
        ELSE [err |-> "none", val |-> owners[pos.val]]

\* A lookup that answers with an empty hostname when the list is empty.
GetItemOn_default(hashes, owners, key) ==
    LET key_hash == generate_hash(key)
        hash_index == get_nearest_hash_index(hashes, key_hash)
    IN  IF Len(hashes) = 0 THEN [err |-> "none", val |-> <<>>]
        ELSE NodeAt(hashes, owners, hash_index)

GetItemOn(hashes, owners, key) ==
    LET key_hash == generate_hash(key)
        hash_index == get_nearest_hash_index(hashes, key_hash)
    IN  NodeAt(hashes, owners, hash_index)

GetItem(key) == GetItemOn(vnode_hashes, nodes, key)

RingLen == Cardinality(DOMAIN nodes) \div vnode_count

ContainsOn(owners, node_id) ==
    LET vnode_ids == generate_vnode_ids(node_id)
    IN  generate_hash(vnode_ids[1]) \in DOMAIN owners

Contains(node_id) == ContainsOn(nodes, node_id)

\* The loop over range(hash_index + 1, hash_index + replica_count + 1); x is
\* the next value of the range, acc the replica_list built so far.
RECURSIVE ReplicaLoop(_, _, _)
ReplicaLoop(x, stop, acc) ==
    IF x >= stop THEN [err |-> "none", val |-> acc]
    ELSE IF Len(vnode_hashes) = 0 THEN [err |-> "ZeroDivisionError", val |-> <<>>]
    ELSE LET index == x % Len(vnode_hashes)
             node == NodeAt(vnode_hashes, nodes, index)
         IN  IF node.err # "none" THEN node
             ELSE ReplicaLoop(x + 1, stop, Append(acc, node.val))

\* A walk that starts on the primary instead of after it.
GetReplicasForKey_fromprimary(key) ==
    LET key_hash == generate_hash(key)
        hash_index == get_nearest_hash_index(vnode_hashes, key_hash)
    IN  ReplicaLoop(hash_index, hash_index + replica_count, <<>>)

GetReplicasForKey(key) ==
    LET key_hash == generate_hash(key)
        hash_index == get_nearest_hash_index(vnode_hashes, key_hash)
    IN  ReplicaLoop(hash_index + 1, hash_index + replica_count + 1, <<>>)

GetAllHosts == DictValues(nodes)

\* A walk that counts its steps from the node's own index.
GetHandoffNode_fromown(node_ip) ==
    IF node_ip \notin DOMAIN ip_to_hostname THEN [err |-> "KeyError", val |-> <<>>]
    ELSE LET hostname == ip_to_hostname[node_ip]
             vnode_ids == generate_vnode_ids(hostname)
             index == BisectLeft(vnode_hashes, generate_hash(vnode_ids[1]))
         IN  IF Len(vnode_hashes) = 0 THEN [err |-> "ZeroDivisionError", val |-> <<>>]
             ELSE NodeAt(vnode_hashes, nodes, (index + replica_count) % Len(vnode_hashes))

GetHandoffNode(node_ip) ==
    IF node_ip \notin DOMAIN ip_to_hostname THEN [err |-> "KeyError", val |-> <<>>]
    ELSE LET hostname == ip_to_hostname[node_ip]
             vnode_ids == generate_vnode_ids(hostname)
             index == get_nearest_hash_index(vnode_hashes, generate_hash(vnode_ids[1]))
         IN  IF Len(vnode_hashes) = 0 THEN [err |-> "ZeroDivisionError", val |-> <<>>]
             ELSE NodeAt(vnode_hashes, nodes, (index + replica_count) % Len(vnode_hashes))

GetKeyRange(hostname) ==
    LET vnode_id == generate_vnode_ids(hostname)[1]
        index == get_nearest_hash_index(vnode_hashes, generate_hash(vnode_id))
        start_key == PyIndex(vnode_hashes, index - 2)
        end_key == PyIndex(vnode_hashes, index - 1)
    IN  IF start_key.err # "none" THEN [err |-> start_key.err, val |-> <<>>]
        ELSE IF end_key.err # "none" THEN [err |-> end_key.err, val |-> <<>>]
        ELSE [err |-> "none", val |-> <<start_key.val, end_key.val>>]

Query(op, arg, res) ==
    /\ ret' = Called(op, arg, res.err, res.val)
    /\ UNCHANGED <<ring, registered, threads>>

CallGetNodeForKey(key) == Query("get_node_for_key", key, GetItem(key))

CallGetReplicasForKey(key) == Query("get_replicas_for_key", key, GetReplicasForKey(key))

CallGetHandoffNode(node_ip) == Query("get_handoff_node", node_ip, GetHandoffNode(node_ip))

CallGetKeyRange(hostname) == Query("get_key_range", hostname, GetKeyRange(hostname))

CallContains(node_id) == Query("contains", node_id, [err |-> "none", val |-> Contains(node_id)])

CallLen == Query("len", <<>>, [err |-> "none", val |-> RingLen])

CallGetAllHosts == Query("get_all_hosts", <<>>, [err |-> "none", val |-> GetAllHosts])

Next ==
    \/ \E h \in Hostnames : AddNodeUnresolved(h)
    \/ \E h \in Hostnames : AddNode(h)
    \/ \E h \in Hostnames : RemoveNode(h)
    \/ \E k \in Keys : CallGetNodeForKey(k)
    \/ \E k \in Keys : CallGetReplicasForKey(k)
    \/ \E ip \in IPs : CallGetHandoffNode(ip)
    \/ \E h \in Hostnames : CallGetKeyRange(h)
    \/ \E h \in Hostnames : CallContains(h)
    \/ CallLen
    \/ CallGetAllHosts

Spec == Init /\ [][Next]_vars

\* ------------------------------------------------- interleaved execution
\* The class takes no lock.  Each thread makes one call; a step is one line of
\* the method that reads or writes a shared structure (a call into bisect or
\* into a dict or list method runs to its end under the interpreter lock),
\* and any thread may run between two steps of another.

\* The ring after add_node for each hostname of S in turn, in increasing order.
RECURSIVE Preload(_)
Preload(S) ==
    IF S = {}
    THEN [st |-> Structs(EmptyDict, <<>>, [n \in Hostnames |-> {}], "none"),
          ip_to_hostname |-> EmptyDict, hostname_to_ip |-> EmptyDict]
    ELSE LET h == CHOOSE x \in S : \A y \in S : y[1] <= x[1]
             before == Preload(S \ {h})
         IN  [st |-> SetItem(before.st, h, h),
              ip_to_hostname |-> DictSet(before.ip_to_hostname, gethostbyname(h), h),
              hostname_to_ip |-> DictSet(before.hostname_to_ip, h, gethostbyname(h))]

\* The calls start on a ring that add_node built without a refusal.
ConcInit ==
    \E S \in SUBSET Hostnames :
        /\ Cardinality(DOMAIN Preload(S).st.nodes) = Cardinality(S)
        /\ nodes = Preload(S).st.nodes
        /\ vnode_hashes = Preload(S).st.vnode_hashes
        /\ vnode_mapping = Preload(S).st.vnode_mapping
        /\ ip_to_hostname = Preload(S).ip_to_hostname
        /\ hostname_to_ip = Preload(S).hostname_to_ip
        /\ registered = S
        /\ replica_count = 0
        /\ ret = [op |-> "init", arg |-> <<>>, err |-> "none", out |-> <<>>]
        /\ threads = [t \in Threads |-> Idle]

At_(t, pc) == threads[t].pc = pc

Goto(t, pc) == threads' = [threads EXCEPT ![t].pc = pc]

Raise(t, err) == threads' = [threads EXCEPT ![t].pc = "done", ![t].err = err]

Return(t, out) == threads' = [threads EXCEPT ![t].pc = "done", ![t].err = "none", ![t].out = out]

Untouched == <<replica_count, registered, ret>>

\* add_node, line 86: the resolver answers or fails.
AddStart(t, h) ==
    /\ At_(t, "idle")
    /\ \/ threads' = [threads EXCEPT ![t] = [Idle EXCEPT !.pc = "a87", !.op = "add_node",
                                               !.arg = h, !.ip = gethostbyname(h)]]
       \/ threads' = [threads EXCEPT ![t] = [Idle EXCEPT !.pc = "done", !.op = "add_node",
                                               !.arg = h, !.err = "gaierror"]]
    /\ UNCHANGED <<ring, Untouched>>

\* line 87
Add87(t) ==
    /\ At_(t, "a87")
    /\ ip_to_hostname' = DictSet(ip_to_hostname, threads[t].ip, threads[t].arg)
    /\ Goto(t, "a88")
    /\ UNCHANGED <<vnode_mapping, vnode_hashes, nodes, hostname_to_ip, Untouched>>

\* line 88, and the entry into __setitem__
Add88(t) ==
    /\ At_(t, "a88")
    /\ hostname_to_ip' = DictSet(hostname_to_ip, threads[t].arg, threads[t].ip)
    /\ threads' = [threads EXCEPT ![t].pc = "a36", ![t].ids = generate_vnode_ids(threads[t].arg)]
    /\ UNCHANGED <<vnode_mapping, vnode_hashes, nodes, ip_to_hostname, Untouched>>

\* lines 33-37: the next vnode id, its hash, the membership test
Add36(t) ==
    /\ At_(t, "a36")
    /\ IF threads[t].ids = <<>> THEN Return(t, <<>>)
       ELSE LET vnode_hash == generate_hash(Head(threads[t].ids))
            IN  IF vnode_hash \in DOMAIN nodes THEN Raise(t, "ValueError")
                ELSE threads' = [threads EXCEPT ![t].pc = "a38", ![t].vnode_hash = vnode_hash,
                                                ![t].ids = Tail(threads[t].ids)]
    /\ UNCHANGED <<ring, Untouched>>

\* line 38
Add38(t) ==
    /\ At_(t, "a38")
    /\ nodes' = DictSet(nodes, threads[t].vnode_hash, threads[t].arg)
    /\ Goto(t, "a39")
    /\ UNCHANGED <<vnode_mapping, vnode_hashes, ip_to_hostname, hostname_to_ip, Untouched>>

\* line 39
Add39(t) ==
    /\ At_(t, "a39")
    /\ vnode_hashes' = Insort(vnode_hashes, threads[t].vnode_hash)
    /\ Goto(t, "a41")
    /\ UNCHANGED <<vnode_mapping, nodes, ip_to_hostname, hostname_to_ip, Untouched>>

\* line 41
Add41(t) ==
    /\ At_(t, "a41")
    /\ vnode_mapping' = [vnode_mapping EXCEPT ![threads[t].arg] = @ \cup {threads[t].vnode_hash}]
    /\ Goto(t, "a36")
    /\ UNCHANGED <<vnode_hashes, nodes, ip_to_hostname, hostname_to_ip, Untouched>>

\* remove_node, line 92
RemoveStart(t, h) ==
    /\ At_(t, "idle")
    /\ IF h \in DOMAIN hostname_to_ip
       THEN threads' = [threads EXCEPT ![t] = [Idle EXCEPT !.pc = "r93", !.op = "remove_node",
                                                 !.arg = h, !.ip = hostname_to_ip[h]]]
       ELSE threads' = [threads EXCEPT ![t] = [Idle EXCEPT !.pc = "done", !.op = "remove_node",
                                                 !.arg = h, !.err = "KeyError"]]
    /\ UNCHANGED <<ring, Untouched>>

\* line 93
Remove93(t) ==
    /\ At_(t, "r93")
    /\ IF threads[t].ip \in DOMAIN ip_to_hostname
       THEN ip_to_hostname' = DictDel(ip_to_hostname, threads[t].ip) /\ Goto(t, "r94")
       ELSE UNCHANGED ip_to_hostname /\ Raise(t, "KeyError")
    /\ UNCHANGED <<vnode_mapping, vnode_hashes, nodes, hostname_to_ip, Untouched>>

\* line 94
Remove94(t) ==
    /\ At_(t, "r94")
    /\ IF threads[t].arg \in DOMAIN hostname_to_ip
       THEN hostname_to_ip' = DictDel(hostname_to_ip, threads[t].arg) /\ Goto(t, "r46")
       ELSE UNCHANGED hostname_to_ip /\ Raise(t, "KeyError")
    /\ UNCHANGED <<vnode_mapping, vnode_hashes, nodes, ip_to_hostname, Untouched>>

\* lines 46-48
Remove46(t) ==
    /\ At_(t, "r46")
    /\ IF vnode_mapping[threads[t].arg] = {} THEN Raise(t, "TypeError")
       ELSE threads' = [threads EXCEPT ![t].pc = "r51", ![t].todo = vnode_mapping[threads[t].arg]]
    /\ UNCHANGED <<ring, Untouched>>

\* lines 50-51
Remove51(t) ==
    /\ At_(t, "r51")
    /\ IF threads[t].todo = {}
       THEN UNCHANGED nodes /\ Return(t, <<>>)
       ELSE LET vnode_hash == CHOOSE p \in threads[t].todo : \A q \in threads[t].todo : p <= q
            IN  IF vnode_hash \in DOMAIN nodes
                THEN /\ nodes' = DictDel(nodes, vnode_hash)
                     /\ threads' = [threads EXCEPT ![t].pc = "r52", ![t].vnode_hash = vnode_hash,
                                                   ![t].todo = @ \ {vnode_hash}]
                ELSE UNCHANGED nodes /\ Raise(t, "KeyError")
    /\ UNCHANGED <<vnode_mapping, vnode_hashes, ip_to_hostname, hostname_to_ip, Untouched>>

\* line 52
Remove52(t) ==
    /\ At_(t, "r52")
    /\ threads' = [threads EXCEPT ![t].pc = "r53",
                                  ![t].index = BisectLeft(vnode_hashes, threads[t].vnode_hash)]
    /\ UNCHANGED <<ring, Untouched>>

\* line 53
Remove53(t) ==
    /\ At_(t, "r53")
    /\ IF threads[t].index >= Len(vnode_hashes)
       THEN UNCHANGED vnode_hashes /\ Raise(t, "IndexError")
       ELSE vnode_hashes' = ListDel(vnode_hashes, threads[t].index) /\ Goto(t, "r51")
    /\ UNCHANGED <<vnode_mapping, nodes, ip_to_hostname, hostname_to_ip, Untouched>>

\* get_node_for_key, lines 72 and 58
GetStart(t, key) ==
    /\ At_(t, "idle")
    /\ threads' = [threads EXCEPT ![t] = [Idle EXCEPT !.pc = "g59", !.op = "get_node_for_key",
                        !.arg = key, !.index = BisectRight(vnode_hashes, generate_hash(key))]]
    /\ UNCHANGED <<ring, Untouched>>

\* lines 59-62
Get59(t) ==
    /\ At_(t, "g59")
    /\ threads' = [threads EXCEPT ![t].pc = "g74",
                        ![t].index = IF @ = Len(vnode_hashes) THEN 0 ELSE @]
    /\ UNCHANGED <<ring, Untouched>>

\* line 74, self._vnode_hashes[hash_index]
Get74(t) ==
    /\ At_(t, "g74")
    /\ LET pos == PyIndex(vnode_hashes, threads[t].index)
       IN  IF pos.err # "none" THEN Raise(t, pos.err)
           ELSE threads' = [threads EXCEPT ![t].pc = "g74n", ![t].vnode_hash = pos.val]
    /\ UNCHANGED <<ring, Untouched>>

\* line 74, self._nodes[...]
Get74n(t) ==
    /\ At_(t, "g74n")
    /\ IF threads[t].vnode_hash \in DOMAIN nodes
       THEN Return(t, nodes[threads[t].vnode_hash])
       ELSE Raise(t, "KeyError")
    /\ UNCHANGED <<ring, Untouched>>

ConcNext ==
    \/ \E t \in Threads, h \in Hostnames : AddStart(t, h)
    \/ \E t \in Threads : Add87(t)
    \/ \E t \in Threads : Add88(t)
    \/ \E t \in Threads : Add36(t)
    \/ \E t \in Threads : Add38(t)
    \/ \E t \in Threads : Add39(t)
    \/ \E t \in Threads : Add41(t)
    \/ \E t \in Threads, h \in Hostnames : RemoveStart(t, h)
    \/ \E t \in Threads : Remove93(t)
    \/ \E t \in Threads : Remove94(t)
    \/ \E t \in Threads : Remove46(t)
    \/ \E t \in Threads : Remove51(t)
    \/ \E t \in Threads : Remove52(t)
    \/ \E t \in Threads : Remove53(t)
    \/ \E t \in Threads, k \in Keys : GetStart(t, k)
    \/ \E t \in Threads : Get59(t)
    \/ \E t \in Threads : Get74(t)
    \/ \E t \in Threads : Get74n(t)

SpecConc == ConcInit /\ [][ConcNext]_vars

\* ------------------------------------------------------------ properties
\* The ring as a set of positions, and the walk around it, stated without
\* the list indices the code computes with.
Positions == { vnode_hashes[i] : i \in 1..Len(vnode_hashes) }

MinOf(S) == CHOOSE p \in S : \A q \in S : p <= q

MaxOf(S) == CHOOSE p \in S : \A q \in S : q <= p

\* The first position clockwise of h: the smallest one strictly greater than
\* h, or the smallest of all when none is greater.
SuccessorPos(h) ==
    LET above == { p \in Positions : p > h }
    IN  IF above # {} THEN MinOf(above) ELSE MinOf(Positions)

RECURSIVE NthAfter(_, _)
NthAfter(p, n) == IF n = 0 THEN p ELSE SuccessorPos(NthAfter(p, n - 1))

OwnPosition(node_id) == generate_hash(generate_vnode_ids(node_id)[1])

InRing(node_id) ==
    /\ OwnPosition(node_id) \in DOMAIN nodes
    /\ nodes[OwnPosition(node_id)] = node_id

OwnerIs(p, node_id) == p \in DOMAIN nodes /\ nodes[p] = node_id

C2_Coverage ==
    (ret.op = "get_node_for_key" /\ registered # {}) =>
        /\ ret.err = "none"
        /\ ret.out \in registered

\* C3: an add_node(X) or remove_node(X) that returns changes the result of
\* get_node_for_key only for keys whose primary is X in the ring that holds X
\* (the ring after the add, the ring before the remove).
C3_MinimalDisruption ==
    [][ \A k \in Keys :
          /\ (ret'.op = "add_node" /\ ret'.err = "none" /\ GetItem(k)' # GetItem(k)) =>
                 (GetItem(k)').val = ret'.arg
          /\ (ret'.op = "remove_node" /\ ret'.err = "none" /\ GetItem(k)' # GetItem(k)) =>
                 GetItem(k).val = ret'.arg
      ]_vars

\* C4: the result of get_node_for_key is a function of the set of registered
\* nodes and the key alone: whatever calls led to that set, the key resolves to
\* the registered node at the first position clockwise of hash(key) among the
\* positions of the registered nodes.
C4_Determinism ==
    \A k \in Keys :
        registered # {} =>
            LET regpos == { OwnPosition(n) : n \in registered }
                above == { p \in regpos : p > generate_hash(k) }
                target == IF above # {} THEN MinOf(above) ELSE MinOf(regpos)
            IN  /\ GetItem(k).err = "none"
                /\ GetItem(k).val \in registered
                /\ OwnPosition(GetItem(k).val) = target

\* C5: in the state an add_node(X) that returned leaves, contains(X) is true;
\* in the state a remove_node(X) that returned leaves, contains(X) is false.
C5_RoundTrip ==
    /\ (ret.op = "add_node" /\ ret.err = "none") => Contains(ret.arg)
    /\ (ret.op = "remove_node" /\ ret.err = "none") => ~Contains(ret.arg)

\* A remove_node(X) has returned for an X added earlier, two other nodes
\* staying in the ring.
C5_Witness ==
    /\ ret.op = "remove_node"
    /\ ret.err = "none"
    /\ ret.arg \notin registered
    /\ vnode_mapping[ret.arg] # {}
    /\ ~Contains(ret.arg)
    /\ Len(vnode_hashes) = 2

\* C6: when replica_count <= size() - 1, get_replicas_for_key returns exactly
\* replica_count pairwise distinct nodes, the i-th being the owner of the i-th
\* position clockwise of the primary's position.
C6_ReplicaOrder ==
    (ret.op = "get_replicas_for_key" /\ replica_count <= RingLen - 1) =>
        /\ ret.err = "none"
        /\ Len(ret.out) = replica_count
        /\ \A i, j \in 1..Len(ret.out) : i # j => ret.out[i] # ret.out[j]
        /\ \A i \in 1..Len(ret.out) :
               OwnerIs(NthAfter(SuccessorPos(generate_hash(ret.arg)), i), ret.out[i])

\* Two replicas on a ring of three, the walk wrapping past the last position.
C6_Witness ==
    /\ ret.op = "get_replicas_for_key"
    /\ replica_count = 2
    /\ RingLen = 3
    /\ ret.err = "none"
    /\ Len(ret.out) = 2
    /\ SuccessorPos(generate_hash(ret.arg)) = MaxOf(Positions)
    /\ OwnerIs(MinOf(Positions), ret.out[1])

\* C7: on a non-empty ring the list get_replicas_for_key returns never holds
\* the node get_node_for_key returns for the same key.
C7_NoPrimaryInReplicas ==
    (ret.op = "get_replicas_for_key" /\ ret.err = "none" /\ Len(vnode_hashes) > 0) =>
        \A i \in 1..Len(ret.out) : ret.out[i] # GetItem(ret.arg).val

InRange(h, start, end) ==
    IF start < end THEN start < h /\ h <= end
    ELSE h > start \/ h <= end

\* C9: the pair (start, end) that get_key_range(N) returns for a node N in the
\* ring is such that a key resolves to N exactly when its hash lies in
\* (start, end].
C9_KeyRangeIsPrimaryRange ==
    (ret.op = "get_key_range" /\ InRing(ret.arg) /\ ret.err = "none") =>
        \A k \in Keys :
            (GetItem(k).val = ret.arg) <=> InRange(generate_hash(k), ret.out[1], ret.out[2])

\* C10: a remove_node(X) called when X owns no position of the ring raises, and
\* leaves every field of the ring as it was.
C10_FailedRemoveKeepsState ==
    [][ (ret'.op = "remove_node" /\ ret'.arg \notin DictValues(nodes)) =>
            (ret'.err # "none" /\ ring' = ring)
      ]_vars

\* h's vnode position is held by a node other than h.
OccupiedByOther(h) == OwnPosition(h) \in DOMAIN nodes /\ nodes[OwnPosition(h)] # h

\* C11: an add_node(Y) whose position is held by a different node raises
\* ValueError and leaves every field of the ring, the hostname and address
\* bookkeeping included, as it was.  (A call the resolver fails is not counted.)
C11_DuplicateKeepsState ==
    [][ (ret'.op = "add_node" /\ ret'.err # "gaierror" /\ OccupiedByOther(ret'.arg)) =>
            (ret'.err = "ValueError" /\ ring' = ring)
      ]_vars

\* C12: with no node registered, on a new ring and on an emptied one,
\* get_node_for_key raises (IndexError, the ring being empty) and leaves the
\* ring as it was.
C12_EmptyRingFails ==
    [][ (ret'.op = "get_node_for_key" /\ registered = {}) =>
            (ret'.err = "IndexError" /\ ring' = ring /\ registered' = registered)
      ]_vars

\* The lookup has failed on a ring whose nodes have all been removed.
C12_Witness ==
    /\ ret.op = "get_node_for_key"
    /\ ret.err = "IndexError"
    /\ registered = {}
    /\ vnode_hashes = <<>>
    /\ \E n \in Hostnames : vnode_mapping[n] # {}

\* C13: get_key_range(X) for an X that owns no position of the ring raises
\* instead of returning a pair.
C13_KeyRangeOfAbsentFails ==
    (ret.op = "get_key_range" /\ ~InRing(ret.arg)) => ret.err # "none"

\* C16: when remove_node(X) returns on a ring of at least two nodes, every key
\* whose primary was X resolves to another node, the owner of the position that
\* followed X's position before the removal.
C16_RemovedKeysMoveToSuccessor ==
    [][ (ret'.op = "remove_node" /\ ret'.err = "none" /\ Len(vnode_hashes) >= 2) =>
            \A k \in Keys :
                (GetItem(k).err = "none" /\ GetItem(k).val = ret'.arg) =>
                    /\ (GetItem(k)').err = "none"
                    /\ (GetItem(k)').val # ret'.arg
                    /\ OwnerIs(SuccessorPos(OwnPosition(ret'.arg)), (GetItem(k)').val)
      ]_vars

\* The node at the largest position has been removed from a ring of three: the
\* keys between the new largest position and the removed one now wrap to the
\* node at the smallest position.
C16_Witness ==
    /\ ret.op = "remove_node"
    /\ ret.err = "none"
    /\ Len(vnode_hashes) = 2
    /\ ~Contains(ret.arg)
    /\ OwnPosition(ret.arg) > MaxOf(Positions)
    /\ \E k \in Keys :
           /\ generate_hash(k) >= MaxOf(Positions)
           /\ generate_hash(k) < OwnPosition(ret.arg)
           /\ OwnerIs(MinOf(Positions), GetItem(k).val)

\* C17: a key whose hash equals the position of a node in the ring resolves to
\* that node ("nearest but not less than").
C17_EqualHashResolvesToNode ==
    (ret.op = "get_node_for_key" /\ ret.err = "none"
        /\ generate_hash(ret.arg) \in DOMAIN nodes) =>
        ret.out = nodes[generate_hash(ret.arg)]

\* C18: in every state add_node and remove_node calls lead to, failed calls
\* included, _vnode_hashes is strictly increasing.
C18_StrictlyIncreasing ==
    \A i \in 1..Len(vnode_hashes) - 1 : vnode_hashes[i] < vnode_hashes[i + 1]

\* Three positions are in the list and the last add_node was refused.
C18_Witness ==
    /\ Len(vnode_hashes) = 3
    /\ ret.op = "add_node"
    /\ ret.err = "ValueError"
    /\ vnode_hashes[1] < vnode_hashes[2]
    /\ vnode_hashes[2] < vnode_hashes[3]

\* C19: the positions _vnode_mapping records for a node are exactly the
\* positions of _vnode_hashes that node owns; none after its removal.
C19_MappingMatchesList ==
    \A n \in Hostnames :
        vnode_mapping[n] = { p \in Positions : OwnerIs(p, n) }

\* C20: on a ring of one or two nodes get_key_range(N) for a node N of the ring
\* returns a pair of positions of the ring.
C20_KeyRangeOnSmallRing ==
    (ret.op = "get_key_range" /\ InRing(ret.arg) /\ RingLen \in {1, 2}) =>
        /\ ret.err = "none"
        /\ ret.out[1] \in Positions
        /\ ret.out[2] \in Positions

\* The result a finished call of thread t has recorded.
Outcome(t) == [err |-> threads[t].err, val |-> threads[t].out]

\* What get_node_for_key(key) returns on the present ring with X put back.
ResolveWith(X, key) ==
    LET st == SetItem(Current, X, X)
    IN  GetItemOn(st.vnode_hashes, st.nodes, key)

\* C14: a get_node_for_key running next to a remove_node(X) that returns and
\* leaves a node in the ring does not fail, and returns what it returns on the
\* ring with X or what it returns on the ring without X.
C14_ReaderSeesWholeRemoval ==
    \A w, r \in Threads :
        (/\ threads[w].pc = "done" /\ threads[w].op = "remove_node" /\ threads[w].err = "none"
         /\ threads[r].pc = "done" /\ threads[r].op = "get_node_for_key"
         /\ Len(vnode_hashes) > 0) =>
            /\ threads[r].err = "none"
            /\ Outcome(r) \in {GetItem(threads[r].arg), ResolveWith(threads[w].arg, threads[r].arg)}

\* C15: when the calls of all threads have ended, _vnode_hashes is strictly
\* increasing and its elements are exactly the keys of _nodes.
C15_WritersLeaveListAndMapInStep ==
    (\A t \in Threads : threads[t].pc \in {"idle", "done"}) =>
        /\ \A i \in 1..Len(vnode_hashes) - 1 : vnode_hashes[i] < vnode_hashes[i + 1]
        /\ Positions = DOMAIN nodes

====
